---- MODULE Spec2Model ----
(***************************************************************************)
(* Wyckoff-1Min-Reader, main.py: the multi-timeframe SCOB scan.            *)
(*                                                                         *)
(* Spec       : main() and process_one_stock(), one action per step of a   *)
(*              (symbol, period) unit.  The external collaborators         *)
(*              (akshare, mplfinance, the AI providers, xhtml2pdf) are     *)
(*              inputs drawn by \E: what they return, or that they raise.  *)
(* SpecRepair : the data normalisation of fetch_stock_data (Open=0 repair, *)
(*              sort by date, tail(bars_count)) applied to bounded raw     *)
(*              bar frames.                                                *)
(*                                                                         *)
(* Abstractions: a report path is <<symbol, period>> (the minute timestamp *)
(* of the file name is left out); an AI answer is one of three classes of  *)
(* text or the failure sentinel; prices are small naturals; the locals of  *)
(* process_one_stock are cleared when a unit starts.                       *)
(***************************************************************************)
EXTENDS Integers, Sequences, FiniteSets, TLC

\* ---- bounds ------------------------------------------------------------
MaxLines == 2          \* lines of stock_list.txt
MaxBars  == 3          \* rows of a raw frame returned by the gateway
MaxPrice == 2          \* prices range over 0..MaxPrice

\* ---- program constants -------------------------------------------------
target_periods == <<"15", "30", "60">>
DefaultSymbol  == "600519"
Sentinel       == "Error: all AI interfaces failed"
RespYes        == "SCOB Signal: YES"
RespNo         == "SCOB Signal: NO"
RespNoMarker   == "no signal marker"
Texts          == {RespYes, RespNo, RespNoMarker}

\* lines stock_list.txt may hold: two codes, a comment line, a blank line
StockLines == {"600519", "000001", "#", ""}
NoFile     == [exists |-> FALSE, lines |-> <<>>]
File(ls)   == [exists |-> TRUE, lines |-> ls]

VARIABLES
    stock_list,      \* stock_list.txt: NoFile or File(lines)
    push_list,       \* push_list.txt: NoFile or File(paths)
    pc,              \* position of main
    symbols,         \* main: symbols
    i, p,            \* loop positions: index in symbols, index in target_periods
    generated_pdfs,  \* main: generated_pdfs (the manifest)
    gateway,         \* what ak.stock_zh_a_hist_min_em did for the current unit
    df,              \* process_one_stock: df
    chart,           \* outcome of generate_local_chart for the current unit
    report_text,     \* process_one_stock: report_text
    pdf,             \* outcome of the PDF conversion for the current unit
    last_unit,       \* history: the unit fetch_stock_data was last called for
    at_fetch,        \* history: generated_pdfs when last_unit started
    emitters,        \* history: the unit that appended each manifest entry
    called,          \* history: symbol indices process_one_stock was called for
    units,           \* history: units whose processing started
    oracle_calls,    \* history: call_ai_api calls made for last_unit
    errors,          \* history: exceptions caught by main, with the manifest then
    raw, bars_count, out, rpc   \* SpecRepair: raw frame, BARS_COUNT, result, position

pvars == <<stock_list, push_list, pc, symbols, i, p, generated_pdfs, gateway,
           df, chart, report_text, pdf, last_unit, at_fetch, emitters, called,
           units, oracle_calls, errors>>
rvars == <<raw, bars_count, out, rpc>>
vars  == <<pvars, rvars>>

\* ---- helpers -----------------------------------------------------------
RECURSIVE SeqsUpTo(_, _)
SeqsUpTo(S, n) ==
    IF n = 0 THEN {<<>>}
    ELSE LET shorter == SeqsUpTo(S, n - 1)
         IN  shorter \cup {Append(s, x) : s \in {t \in shorter : Len(t) = n - 1}, x \in S}

IsPrefix(s, t) == Len(s) <= Len(t) /\ SubSeq(t, 1, Len(s)) = s

NoUnit == <<0, 0>>

\* ---- main: reading the symbol list (lines 282-288) ---------------------
RECURSIVE KeepSymbols(_)
KeepSymbols(lines) ==
    IF lines = <<>> THEN <<>>
    ELSE IF Head(lines) # "" /\ Head(lines) # "#"
         THEN <<Head(lines)>> \o KeepSymbols(Tail(lines))
         ELSE KeepSymbols(Tail(lines))

ReadSymbols(file) ==
    LET listed == IF file.exists THEN KeepSymbols(file.lines) ELSE <<>>
    IN  IF listed = <<>> THEN <<DefaultSymbol>> ELSE listed

\* ---- fetch_stock_data: the gateway call and its try/except -------------
GatewayOutcomes == {"raise", "empty", "malformed", "ok"}

\* what fetch_stock_data does with the gateway outcome: an empty frame, a
\* normalised frame, or an exception out of the normalisation (a frame
\* without the expected columns or with non-numeric cells)
fetch_stock_data(g) ==
    IF g \in {"raise", "empty"} THEN "empty"
    ELSE IF g = "ok" THEN "data"
    ELSE "exception"

\* ---- fetch_stock_data: normalisation of a non-empty frame (lines 50-59) -
Prices == 0..MaxPrice

\* frames of n rows with pairwise distinct timestamps, in any row order
Frames(n) ==
    {f \in [1..n -> [date : 1..n, open : Prices, close : Prices]] :
        \A a, b \in 1..n : a # b => f[a].date # f[b].date}

\* lines 51-54: replace(0, nan); fillna(close.shift(1)); fillna(close)
\* shift(1) is taken in the row order of the frame as returned
RepairOpen(rows) ==
    [k \in 1..Len(rows) |->
        IF rows[k].open = 0
        THEN [rows[k] EXCEPT !.open = IF k = 1 THEN rows[1].close ELSE rows[k - 1].close]
        ELSE rows[k]]

\* line 58: sort_values("date")
RECURSIVE SortByDate(_)
SortByDate(rows) ==
    IF Len(rows) = 0 THEN <<>>
    ELSE LET m == CHOOSE k \in 1..Len(rows) :
                      \A j \in 1..Len(rows) : rows[k].date <= rows[j].date
             rest == [j \in 1..(Len(rows) - 1) |-> IF j < m THEN rows[j] ELSE rows[j + 1]]
         IN  <<rows[m]>> \o SortByDate(rest)

\* line 58: tail(n) for n >= 1
Tail_n(rows, n) ==
    IF Len(rows) <= n THEN rows ELSE SubSeq(rows, Len(rows) - n + 1, Len(rows))

\* lines 50-59 as a whole
NormaliseTruncateFirst(rows, n) == RepairOpen(Tail_n(SortByDate(rows), n))

Normalise(rows, n) == Tail_n(SortByDate(RepairOpen(rows)), n)

\* process_one_stock line 254: if df.empty: continue
SkipUnitNever(frame) == FALSE

SkipUnit(frame) == frame = "empty"

\* ---- generate_local_chart: mpf.plot inside try/except ------------------
generate_local_chart_escape(plot) ==
    IF plot = "raise" THEN "exception" ELSE "saved"

generate_local_chart(plot) ==
    IF plot = "raise" THEN "failed" ELSE "saved"

\* ---- call_ai_api: Qwen first, Gemini second, then the sentinel ---------
QwenOutcomes   == {"unset", "raise"} \cup Texts
GeminiOutcomes == {"unset", "raise", "non200"} \cup Texts

call_ai_api(qwen, gemini) ==
    IF qwen \in Texts THEN qwen
    ELSE IF gemini \in Texts THEN gemini
    ELSE Sentinel

\* ---- generate_pdf_report: True unless open/CreatePDF raises ------------
PdfOutcomes == {"ok", "pisa_err", "raise"}

generate_pdf_report(conv) == conv # "raise"

\* ---- list.append (line 274) --------------------------------------------
ListPrepend(list, x) == <<x>> \o list

ListAppend(list, x) == Append(list, x)

\* ---- the loops of main and process_one_stock ---------------------------
\* an exception out of process_one_stock: main's except resumes at the next symbol
OnExceptionAbort(k) == Len(symbols) + 1

OnException(k) == k + 1

PcAt(k) == IF k > Len(symbols) THEN "persist" ELSE "fetch"

\* the unit loop goes on: next period, or the next symbol's first period
Advance ==
    /\ i'  = IF p < Len(target_periods) THEN i ELSE i + 1
    /\ p'  = IF p < Len(target_periods) THEN p + 1 ELSE 1
    /\ pc' = IF p < Len(target_periods) THEN "fetch" ELSE PcAt(i + 1)
    /\ UNCHANGED errors

\* an exception leaves process_one_stock and is caught at lines 295-296
Propagate ==
    /\ i'  = OnException(i)
    /\ p'  = 1
    /\ pc' = PcAt(OnException(i))
    /\ errors' = Append(errors, [sym |-> i, kept |-> generated_pdfs])

\* ---- actions -----------------------------------------------------------
\* main, lines 279-290
MainStart ==
    /\ pc = "main"
    /\ \E dirs \in {"ok", "oserror"} :
          IF dirs = "oserror"
          THEN /\ pc' = "fatal"
               /\ UNCHANGED <<symbols, i, p, generated_pdfs>>
          ELSE /\ symbols' = ReadSymbols(stock_list)
               /\ generated_pdfs' = <<>>
               /\ i' = 1
               /\ p' = 1
               /\ pc' = "fetch"
    /\ UNCHANGED <<stock_list, push_list, gateway, df, chart, report_text, pdf,
                   last_unit, at_fetch, emitters, called, units, oracle_calls,
                   errors, rvars>>

\* process_one_stock lines 253-255 with fetch_stock_data and add_indicators
Fetch ==
    /\ pc = "fetch"
    /\ \E g \in GatewayOutcomes :
          LET frame == fetch_stock_data(g) IN
          /\ gateway' = g
          /\ df' = IF frame = "exception" THEN "none" ELSE frame
          /\ IF frame = "exception" THEN Propagate
             ELSE IF SkipUnit(frame) THEN Advance
             ELSE /\ pc' = "chart"
                  /\ UNCHANGED <<i, p, errors>>
    /\ chart' = "none"
    /\ report_text' = "none"
    /\ pdf' = "none"
    /\ oracle_calls' = 0
    /\ last_unit' = <<i, p>>
    /\ at_fetch' = generated_pdfs
    /\ called' = called \cup {i}
    /\ units' = units \cup {<<i, p>>}
    /\ UNCHANGED <<stock_list, push_list, symbols, generated_pdfs, emitters, rvars>>

\* process_one_stock line 265
Chart ==
    /\ pc = "chart"
    /\ \E plot \in {"ok", "raise"} :
          LET res == generate_local_chart(plot) IN
          /\ chart' = IF res = "exception" THEN "failed" ELSE res
          /\ IF res = "exception" THEN Propagate
             ELSE /\ pc' = "oracle"
                  /\ UNCHANGED <<i, p, errors>>
    /\ UNCHANGED <<stock_list, push_list, symbols, generated_pdfs, gateway, df,
                   report_text, pdf, last_unit, at_fetch, emitters, called,
                   units, oracle_calls, rvars>>

\* process_one_stock lines 268-269
Oracle ==
    /\ pc = "oracle"
    /\ \E qwen \in QwenOutcomes, gemini \in GeminiOutcomes :
          report_text' = call_ai_api(qwen, gemini)
    /\ oracle_calls' = oracle_calls + 1
    /\ pc' = "pdf"
    /\ UNCHANGED <<stock_list, push_list, symbols, i, p, generated_pdfs, gateway,
                   df, chart, pdf, last_unit, at_fetch, emitters, called, units,
                   errors, rvars>>

\* process_one_stock lines 272-276
Pdf ==
    /\ pc = "pdf"
    /\ \E conv \in PdfOutcomes :
          /\ pdf' = conv
          /\ IF generate_pdf_report(conv)
             THEN /\ generated_pdfs' = ListAppend(generated_pdfs, <<symbols[i], target_periods[p]>>)
                  /\ emitters' = ListAppend(emitters, <<i, p>>)
             ELSE UNCHANGED <<generated_pdfs, emitters>>
    /\ Advance
    /\ UNCHANGED <<stock_list, push_list, symbols, gateway, df, chart, report_text,
                   last_unit, at_fetch, called, units, oracle_calls, rvars>>

\* main lines 298-302
Persist ==
    /\ pc = "persist"
    /\ push_list' = IF generated_pdfs # <<>> THEN File(generated_pdfs) ELSE push_list
    /\ pc' = "done"
    /\ UNCHANGED <<stock_list, symbols, i, p, generated_pdfs, gateway, df, chart,
                   report_text, pdf, last_unit, at_fetch, emitters, called, units,
                   oracle_calls, errors, rvars>>

StalePath == <<"stale", "60">>

Init ==
    /\ stock_list \in {NoFile} \cup {File(ls) : ls \in SeqsUpTo(StockLines, MaxLines)}
    /\ push_list \in {NoFile, File(<<StalePath>>)}
    /\ pc = "main"
    /\ symbols = <<>>
    /\ i = 0
    /\ p = 0
    /\ generated_pdfs = <<>>
    /\ gateway = "none"
    /\ df = "none"
    /\ chart = "none"
    /\ report_text = "none"
    /\ pdf = "none"
    /\ last_unit = NoUnit
    /\ at_fetch = <<>>
    /\ emitters = <<>>
    /\ called = {}
    /\ units = {}
    /\ oracle_calls = 0
    /\ errors = <<>>
    /\ raw = <<>>
    /\ bars_count = 0
    /\ out = <<>>
    /\ rpc = "idle"

Next == MainStart \/ Fetch \/ Chart \/ Oracle \/ Pdf \/ Persist

Spec == Init /\ [][Next]_vars

\* ---- SpecRepair: fetch_stock_data on one raw frame ---------------------
FetchNormalise ==
    /\ rpc = "raw"
    /\ out' = Normalise(raw, bars_count)
    /\ rpc' = "returned"
    /\ UNCHANGED <<raw, bars_count, pvars>>

InitRepair ==
    /\ stock_list = NoFile
    /\ push_list = NoFile
    /\ pc = "main"
    /\ symbols = <<>>
    /\ i = 0
    /\ p = 0
    /\ generated_pdfs = <<>>
    /\ gateway = "none"
    /\ df = "none"
    /\ chart = "none"
    /\ report_text = "none"
    /\ pdf = "none"
    /\ last_unit = NoUnit
    /\ at_fetch = <<>>
    /\ emitters = <<>>
    /\ called = {}
    /\ units = {}
    /\ oracle_calls = 0
    /\ errors = <<>>
    /\ \E n \in 1..MaxBars : raw \in Frames(n)
    /\ bars_count \in 1..MaxBars
    /\ out = <<>>
    /\ rpc = "raw"

NextRepair == FetchNormalise

SpecRepair == InitRepair /\ [][NextRepair]_vars

\* ---- properties ---------------------------------------------------------
AllUnits == (1..Len(symbols)) \X (1..Len(target_periods))

Finished == pc \in {"persist", "done"}

\* the unit after u in the nested loop order
Successor(u) == IF u[2] < Len(target_periods) THEN <<u[1], u[2] + 1>> ELSE <<u[1] + 1, 1>>

UnitBefore(u, v) == u[1] < v[1] \/ (u[1] = v[1] /\ u[2] < v[2])

\* C1: when process_one_stock raises for a symbol, main catches the exception
\* and still calls process_one_stock for every later symbol of the list, and
\* the manifest entries appended before the failure are kept.
C1_BatchFaultIsolation ==
    /\ \A e \in 1..Len(errors) :
          /\ IsPrefix(errors[e].kept, generated_pdfs)
          /\ \A k \in 1..Len(symbols) :
                k > errors[e].sym => (k \in called \/ (~Finished /\ i <= k))
    /\ Finished => called = 1..Len(symbols)

C1_Witness ==
    /\ pc = "done"
    /\ \E e \in 1..Len(errors) :
          /\ errors[e].sym < Len(symbols)
          /\ errors[e].kept # <<>>
          /\ Len(generated_pdfs) > Len(errors[e].kept)
          /\ errors[e].sym + 1 \in called

\* C2: a failure at any step of a unit never leaves the unit, so every
\* (symbol, timeframe) pair of symbols x {15, 30, 60} is run, the later
\* timeframes of a symbol whose earlier timeframe failed included.
C2_UnitFailureAbsorbed ==
    /\ errors = <<>>
    /\ Finished => units = AllUnits

\* C3: the Report Assembler is called, and a path appended to the manifest,
\* only for a unit whose oracle response holds the positive signal marker.
C3_SignalGating ==
    /\ pdf # "none" => report_text = RespYes
    /\ generated_pdfs # at_fetch => report_text = RespYes

\* C4: a unit whose gateway call returns an empty frame or raises attempts no
\* chart, calls neither the oracle nor the Report Assembler, leaves the
\* manifest unchanged, and is followed by the next timeframe.
C4_EmptyDataShortCircuit ==
    gateway \in {"raise", "empty"} =>
        /\ df = "empty"
        /\ chart = "none"
        /\ oracle_calls = 0
        /\ report_text = "none"
        /\ pdf = "none"
        /\ generated_pdfs = at_fetch
        /\ <<i, p>> = Successor(last_unit)
        /\ (pc = PcAt(i) \/ (pc = "done" /\ PcAt(i) = "persist"))
        /\ \A e \in 1..Len(errors) : IsPrefix(errors[e].kept, at_fetch) /\ errors[e].sym < last_unit[1]

C4_Witness ==
    /\ gateway \in {"raise", "empty"}
    /\ last_unit[2] = 2
    /\ at_fetch # <<>>
    /\ pc = "fetch"
    /\ <<i, p>> = <<last_unit[1], 3>>

\* C5: when call_ai_api returns the failure sentinel, no report is assembled
\* and no path is appended to the manifest for that unit.
C5_OracleFailureFailClosed ==
    report_text = Sentinel => (pdf = "none" /\ generated_pdfs = at_fetch)

\* C6: when main completes, push_list.txt holds exactly the paths emitted by
\* this run, one per line in emission order; after a run that emitted
\* nothing it is absent or empty, whatever it held before.
C6_ManifestPersisted ==
    pc = "done" => push_list.lines = generated_pdfs

\* C7: the manifest is append-only, holds at most one entry per processed
\* unit (so its length is at most the number of units processed so far), and
\* its entries are in the nested processing order, symbols then timeframes.
C7_ManifestShape ==
    /\ [](/\ Len(generated_pdfs) <= Cardinality(units)
          /\ Len(emitters) = Len(generated_pdfs)
          /\ \A k \in 1..Len(emitters) :
                /\ emitters[k] \in units
                /\ generated_pdfs[k] = <<symbols[emitters[k][1]], target_periods[emitters[k][2]]>>
          /\ \A k, m \in 1..Len(emitters) : k < m => UnitBefore(emitters[k], emitters[m]))
    /\ [][IsPrefix(generated_pdfs, generated_pdfs')]_vars

C7_Witness ==
    /\ Len(generated_pdfs) >= 2
    /\ emitters[1][1] # emitters[Len(emitters)][1]
    /\ Len(generated_pdfs) < Cardinality(units)

\* C8: a unit whose Report Assembler fails to produce the document, by
\* raising or by reporting a conversion error, appends no path, so every
\* path of the manifest belongs to a unit whose document was produced.
C8_AssemblyFailureNonEmitting ==
    /\ pdf \in {"pisa_err", "raise"} => generated_pdfs = at_fetch
    /\ generated_pdfs # at_fetch => pdf = "ok"

\* C9: a failure of the chart renderer does not leave the unit and does not
\* skip the oracle query: the oracle is called exactly once for that unit,
\* after the render attempt.
C9_ChartFailureContinues ==
    chart = "failed" =>
        \/ pc = "oracle" /\ <<i, p>> = last_unit /\ oracle_calls = 0 /\ report_text = "none"
        \/ oracle_calls = 1 /\ report_text # "none"

C9_Witness ==
    /\ chart = "failed"
    /\ oracle_calls = 1
    /\ pdf = "ok"
    /\ generated_pdfs # at_fetch

\* ---- properties of the normalisation ------------------------------------
RawIndex(d) == CHOOSE j \in 1..Len(raw) : raw[j].date = d

\* out is the most recent min(bars_count, len) rows, ascending by date
IsRetainedSeries ==
    /\ Len(out) = IF Len(raw) <= bars_count THEN Len(raw) ELSE bars_count
    /\ \A k \in 1..Len(out) : \E j \in 1..Len(raw) : raw[j].date = out[k].date
    /\ \A k, m \in 1..Len(out) : k < m => out[k].date < out[m].date
    /\ \A j \in 1..Len(raw) :
          (\E k \in 1..Len(out) : out[k].date = raw[j].date)
          \/ (\A k \in 1..Len(out) : raw[j].date < out[k].date)

\* C10 as stated: in the retained series every bar whose raw open was zero
\* opens at the close of the bar before it in that series, or at its own
\* close when it is the first bar of that series; other bars keep their
\* open; no bar opens at zero.
C10_ZeroOpenRepairOnRetained ==
    rpc = "returned" =>
        /\ IsRetainedSeries
        /\ \A k \in 1..Len(out) :
              LET rb == raw[RawIndex(out[k].date)] IN
              /\ rb.open = 0 => out[k].open = IF k = 1 THEN out[k].close ELSE out[k - 1].close
              /\ rb.open # 0 => out[k].open = rb.open
              /\ out[k].open # 0

\* C10 amended: every retained bar whose raw open was zero opens at the close
\* of the row before it in the frame as the gateway returned it (before the
\* sort and the truncation), or at its own close when it is the first row of
\* that frame; other bars keep their open; a retained bar opens at zero only
\* when that substituted close is zero.
C10_ZeroOpenRepairOnRawRows ==
    rpc = "returned" =>
        /\ IsRetainedSeries
        /\ \A k \in 1..Len(out) :
              LET j   == RawIndex(out[k].date)
                  sub == IF j = 1 THEN raw[1].close ELSE raw[j - 1].close
              IN  /\ out[k].close = raw[j].close
                  /\ raw[j].open = 0 => out[k].open = sub
                  /\ raw[j].open # 0 => out[k].open = raw[j].open
                  /\ out[k].open = 0 => (raw[j].open = 0 /\ sub = 0)

\* the first retained bar had a zero open and a truncated row before it
C10_Witness ==
    /\ rpc = "returned"
    /\ Len(raw) > bars_count
    /\ raw[RawIndex(out[1].date)].open = 0
    /\ RawIndex(out[1].date) > 1
    /\ out[1].open # out[1].close
    /\ out[1].open = raw[RawIndex(out[1].date) - 1].close
====
